---- MODULE Spec2Model ----
(***************************************************************************)
(* DICOM to PNG converter (images/dicom_to_png.py).                         *)
(*                                                                          *)
(* normalize_pixel_array, convert_dicom_to_png and                          *)
(* batch_convert_dicom_to_png are operators computed the way the code       *)
(* computes them; main and the batch loop are the actions.                  *)
(*                                                                          *)
(* Arithmetic.  The code rescales in float64 and casts to uint8 by          *)
(* truncation.  For integer samples and integer window bounds the float     *)
(* value ((x - lo) / (hi - lo)) * 255.0 truncates to the exact              *)
(* floor((x - lo) * 255 / (hi - lo)) (the rounding error of the two float   *)
(* operations is far below the distance of a non-integral quotient to the   *)
(* next integer, and integral quotients come out exact for the ranges       *)
(* used), so the model computes the exact floor on integers.                *)
(***************************************************************************)
EXTENDS Integers, Sequences, FiniteSets, TLC

VARIABLES
    pc,                 \* position of the running program
    args,               \* the parsed command line (main, line 207)
    dicom_files,        \* the files the input path / glob resolves to
    idx,                \* position of the batch loop in dicom_files
    converted_files,    \* batch: the list being built (line 143)
    attempts,           \* number of convert_dicom_to_png calls per file
    calls,              \* the calls made to normalize_pixel_array
    pngs,               \* the PNG files written so far
    dirs,               \* directories created by os.makedirs
    out,                \* what was printed, to stdout and stderr
    ret,                \* value returned by the function main called
    exit_code,          \* process exit status
    pixel_array,        \* normalizer run: the input array
    window_center,      \* normalizer run: window_center argument
    window_width,       \* normalizer run: window_width argument
    normalized_array    \* normalizer run: the returned array

vars == <<pc, args, dicom_files, idx, converted_files, attempts, calls, pngs,
          dirs, out, ret, exit_code, pixel_array, window_center, window_width,
          normalized_array>>

run_vars == <<args, dicom_files, idx, converted_files, attempts, calls, pngs,
              dirs, out, ret, exit_code>>

norm_vars == <<pixel_array, window_center, window_width, normalized_array>>

-----------------------------------------------------------------------------
(* Bounds of the model *)

\* bits of the stored sample type (a signed integer dtype of this width)
PixBits == 2

\* largest number of samples of a pixel array
MaxSamples == 2

\* largest number of files a batch glob matches
MaxFiles == 3

(* Program constants *)

\* the top of the 8-bit display range, 255.0 at line 43
MaxGray == 255

\* number of values of np.uint8, the cast of line 47
Uint8Range == 256

-----------------------------------------------------------------------------
(* Python's None and an optional value *)

None == <<>>

Some(v) == <<v>>

\* samples of the stored dtype
DtypeMin == -(2 ^ (PixBits - 1))

DtypeMax == (2 ^ (PixBits - 1)) - 1

PixVals == DtypeMin .. DtypeMax

\* window centers and widths a caller or a dataset supplies
CenterVals == -1 .. 1

WidthVals == -1 .. 3

\* shapes holding n samples: 2-D (rows, cols) and 3-D (rows, cols, channels)
Shapes(n) == {<<1, n>>, <<n, 1>>, <<1, 1, n>>}

\* a numpy array: its shape and its samples in C order
Arrays ==
    UNION {{[shape |-> s, data |-> d] : s \in Shapes(n), d \in [1 .. n -> PixVals]}
           : n \in 1 .. MaxSamples}

SeqMin(s) == CHOOSE m \in {s[i] : i \in DOMAIN s} : \A j \in DOMAIN s : m <= s[j]

SeqMax(s) == CHOOSE m \in {s[i] : i \in DOMAIN s} : \A j \in DOMAIN s : m >= s[j]

-----------------------------------------------------------------------------
(* normalize_pixel_array, lines 16-47 *)

\* np.clip(x, lo, hi) is minimum(maximum(x, lo), hi), also when lo > hi
Clip_NoUpper(x, lo, hi) == IF x < lo THEN lo ELSE x

Clip(x, lo, hi) ==
    LET raised == IF x < lo THEN lo ELSE x
    IN  IF raised > hi THEN hi ELSE raised

\* img_min of the windowed branch, line 33 (Python // is floor division)
WindowLo_Full(c, w) == c - w

WindowLo(c, w) == c - (w \div 2)

\* img_max of the windowed branch, line 34
WindowHi(c, w) == c + (w \div 2)

\* ((x - img_min) / (img_max - img_min)) * 255.0, then truncated by the cast
Rescale(x, lo, hi) == ((x - lo) * MaxGray) \div (hi - lo)

\* .astype(np.uint8) of an integral value
AsInt8(v) == ((v + (Uint8Range \div 2)) % Uint8Range) - (Uint8Range \div 2)

AsUint8(v) == v % Uint8Range

\* np.zeros_like
ZerosLike_Keep(d) == d

ZerosLike(d) == [i \in DOMAIN d |-> 0]

\* both parameters given, line 32
Windowed(c, w) == c # None /\ w # None

img_min(a, c, w) == IF Windowed(c, w) THEN WindowLo(c[1], w[1]) ELSE SeqMin(a.data)

img_max(a, c, w) == IF Windowed(c, w) THEN WindowHi(c[1], w[1]) ELSE SeqMax(a.data)

normalize_pixel_array(a, c, w) ==
    LET lo == img_min(a, c, w)
        hi == img_max(a, c, w)
        clipped == IF Windowed(c, w)
                   THEN [i \in DOMAIN a.data |-> Clip(a.data[i], lo, hi)]
                   ELSE a.data
        scaled == IF hi > lo
                  THEN [i \in DOMAIN clipped |-> Rescale(clipped[i], lo, hi)]
                  ELSE ZerosLike(clipped)
    IN  [shape |-> a.shape, data |-> [i \in DOMAIN scaled |-> AsUint8(scaled[i])]]

-----------------------------------------------------------------------------
(* A run of the normalizer alone: the arguments are drawn in NormInit *)

NormInit ==
    /\ pc = "normalize"
    /\ pixel_array \in Arrays
    /\ window_center \in {None} \cup {Some(c) : c \in CenterVals}
    /\ window_width \in {None} \cup {Some(w) : w \in WidthVals}
    /\ normalized_array = None
    /\ args = None /\ dicom_files = <<>> /\ idx = 0 /\ converted_files = <<>>
    /\ attempts = <<>> /\ calls = <<>> /\ pngs = {} /\ dirs = {} /\ out = <<>>
    /\ ret = None /\ exit_code = None

Normalize ==
    /\ pc = "normalize"
    /\ normalized_array' = Some(normalize_pixel_array(pixel_array, window_center, window_width))
    /\ pc' = "returned"
    /\ UNCHANGED <<pixel_array, window_center, window_width>>
    /\ UNCHANGED run_vars

NormNext == Normalize

NormSpec == NormInit /\ [][NormNext]_vars

-----------------------------------------------------------------------------
(* The decoded dataset of a file, and the file *)

\* a DICOM element: missing, a single value, or a MultiValue
Absent == [kind |-> "absent", vals |-> <<>>]

ScalarElem(v) == [kind |-> "scalar", vals |-> <<v>>]

MultiElem(vs) == [kind |-> "multi", vals |-> vs]

\* hasattr(dicom, ...)
HasAttr(e) == e.kind # "absent"

Photometrics == {"absent", "MONOCHROME1", "MONOCHROME2"}

\* np.max(pixel_array) - pixel_array, line 73: computed in the stored dtype,
\* whose arithmetic wraps
WrapDtype(x) == ((x - DtypeMin) % (2 ^ PixBits)) + DtypeMin

Invert(a) ==
    [shape |-> a.shape,
     data |-> [i \in DOMAIN a.data |-> WrapDtype(SeqMax(a.data) - a.data[i])]]

\* lines 70-73
Photometric_Never(ds) == ds.pixel_array

PhotometricAdjusted(ds) ==
    IF ds.PhotometricInterpretation # "absent"
       /\ ds.PhotometricInterpretation = "MONOCHROME1"
    THEN Invert(ds.pixel_array)
    ELSE ds.pixel_array

\* lines 83-86: the first element of a list or MultiValue, else the value
FirstOrValue_Last(e) == e.vals[Len(e.vals)]

FirstOrValue(e) == IF e.kind = "multi" THEN Head(e.vals) ELSE e.vals[1]

\* lines 76-86: the window parameters handed to the normalizer
ExtractWindow(ds, apply_windowing) ==
    IF apply_windowing /\ HasAttr(ds.WindowCenter) /\ HasAttr(ds.WindowWidth)
    THEN [center |-> Some(FirstOrValue(ds.WindowCenter)),
          width |-> Some(FirstOrValue(ds.WindowWidth))]
    ELSE [center |-> None, width |-> None]

\* lines 92-97: Image.fromarray picks the mode from the shape; a 3-D array
\* whose last axis is not 2, 3 or 4 long has no mode and raises TypeError
ImageMode(shape) ==
    IF Len(shape) = 3
    THEN CASE shape[3] = 2 -> "LA"
           [] shape[3] = 3 -> "RGB"
           [] shape[3] = 4 -> "RGBA"
           [] OTHER -> "TypeError"
    ELSE "L"

\* lines 100-103: <dir of the input>/<base name>.png
DerivedPath(dicom_path) == [dir |-> dicom_path.dir, base |-> dicom_path.base, ext |-> "png"]

Msg(stream, kind, file, n, total) ==
    [stream |-> stream, kind |-> kind, file |-> file, n |-> n, total |-> total]

\* lines 111-113: the except branch
Failed(dicom_path, call) ==
    [result |-> None, call |-> call, png |-> None,
     msg |-> Msg("stderr", "error", Some(dicom_path), 0, 0)]

(* convert_dicom_to_png, lines 50-113.  f is what is stored at dicom_path:  *)
(* status "corrupt" makes dcmread raise, "no_pixels" makes .pixel_array     *)
(* raise, "unwritable" makes image.save raise.                              *)
convert_dicom_to_png(f, dicom_path, output_path, apply_windowing) ==
    IF f.status = "corrupt" \/ f.status = "no_pixels"
    THEN Failed(dicom_path, None)
    ELSE LET ds == f.ds
             pixels == PhotometricAdjusted(ds)
             win == ExtractWindow(ds, apply_windowing)
             call == [pixel_array |-> pixels, window_center |-> win.center,
                      window_width |-> win.width]
             normalized == normalize_pixel_array(pixels, win.center, win.width)
             mode == ImageMode(normalized.shape)
             path == IF output_path = None THEN DerivedPath(dicom_path)
                     ELSE output_path[1]
         IN  IF mode = "TypeError" \/ f.status = "unwritable"
             THEN Failed(dicom_path, Some(call))
             ELSE [result |-> Some(path), call |-> Some(call),
                   png |-> Some([path |-> path, image |-> normalized, mode |-> mode]),
                   msg |-> Msg("stdout", "converted", Some(dicom_path), 0, 0)]

\* the calls of the normalizer, the files written and the output after a
\* conversion that gave r
CallsAfter(r) == IF r.call = None THEN calls ELSE Append(calls, r.call[1])

PngsAfter(r) ==
    IF r.png = None THEN pngs
    ELSE {p \in pngs : p.path # r.png[1].path} \cup {r.png[1]}

-----------------------------------------------------------------------------
(* main, lines 159-226 *)

InputPath(k) == [dir |-> "in", base |-> k, ext |-> "dcm"]

ExplicitOutput == [dir |-> "in", base |-> 0, ext |-> "png"]

ArgSets ==
    [input_kind : {"file", "dir", "invalid"},
     output : {None, Some(ExplicitOutput)},
     output_dir : {None, Some("out")},
     no_windowing : BOOLEAN]

\* lines 210-216: the input is a file
MainFileGuard == pc = "main" /\ args.input_kind = "file"

MainFile ==
    /\ MainFileGuard
    /\ LET r == convert_dicom_to_png(dicom_files[1], InputPath(1), args.output,
                                     ~args.no_windowing)
       IN  /\ calls' = CallsAfter(r)
           /\ pngs' = PngsAfter(r)
           /\ out' = Append(out, r.msg)
           /\ ret' = r.result
    /\ attempts' = [attempts EXCEPT ![1] = @ + 1]
    /\ exit_code' = Some(0)
    /\ pc' = "exit"
    /\ UNCHANGED <<args, dicom_files, idx, converted_files, dirs>>
    /\ UNCHANGED norm_vars

\* lines 217-223: the input is a directory
MainDirGuard == pc = "main" /\ args.input_kind = "dir"

MainDir ==
    /\ MainDirGuard
    /\ pc' = "batch"
    /\ UNCHANGED <<args, dicom_files, idx, converted_files, attempts, calls, pngs,
                   dirs, out, ret, exit_code>>
    /\ UNCHANGED norm_vars

\* lines 224-226
MainInvalidGuard == pc = "main" /\ args.input_kind = "invalid"

MainInvalid ==
    /\ MainInvalidGuard
    /\ out' = Append(out, Msg("stderr", "invalid_input", None, 0, 0))
    /\ exit_code' = Some(1)
    /\ pc' = "exit"
    /\ UNCHANGED <<args, dicom_files, idx, converted_files, attempts, calls, pngs,
                   dirs, ret>>
    /\ UNCHANGED norm_vars

-----------------------------------------------------------------------------
(* batch_convert_dicom_to_png, lines 116-156 *)

\* lines 132-134
NoFilesReport_Silent == out

NoFilesReport == Append(out, Msg("stdout", "no_files", None, 0, 0))

BatchNoFilesGuard == pc = "batch" /\ dicom_files = <<>>

BatchNoFiles ==
    /\ BatchNoFilesGuard
    /\ out' = NoFilesReport
    /\ ret' = Some(<<>>)
    /\ exit_code' = Some(0)
    /\ pc' = "exit"
    /\ UNCHANGED <<args, dicom_files, idx, converted_files, attempts, calls, pngs, dirs>>
    /\ UNCHANGED norm_vars

\* lines 136-143
BatchStartGuard == pc = "batch" /\ dicom_files # <<>>

BatchStart ==
    /\ BatchStartGuard
    /\ out' = Append(out, Msg("stdout", "found", None, Len(dicom_files), 0))
    /\ dirs' = IF args.output_dir # None THEN dirs \cup {args.output_dir[1]} ELSE dirs
    /\ converted_files' = <<>>
    /\ idx' = 1
    /\ pc' = "loop"
    /\ UNCHANGED <<args, dicom_files, attempts, calls, pngs, ret, exit_code>>
    /\ UNCHANGED norm_vars

\* lines 145-149
BatchOutputPath(k) ==
    IF args.output_dir # None
    THEN Some([dir |-> args.output_dir[1], base |-> k, ext |-> "png"])
    ELSE None

\* line 151: the call of the body of the loop
BatchConvertCall(k) ==
    convert_dicom_to_png(dicom_files[k], InputPath(k), BatchOutputPath(k), TRUE)

\* lines 152-153
Collected_All(r) == Append(converted_files, r.result)

Collected(r) ==
    IF r.result # None THEN Append(converted_files, r.result[1]) ELSE converted_files

\* where the loop goes after file k
NextIndex_Stop(k, r) == IF r.result = None THEN Len(dicom_files) + 1 ELSE k + 1

NextIndex(k, r) == k + 1

\* lines 144-153: one iteration
BatchIterateGuard == pc = "loop" /\ idx <= Len(dicom_files)

BatchIterate ==
    /\ BatchIterateGuard
    /\ LET r == BatchConvertCall(idx)
       IN  /\ calls' = CallsAfter(r)
           /\ pngs' = PngsAfter(r)
           /\ out' = Append(out, r.msg)
           /\ converted_files' = Collected(r)
           /\ idx' = NextIndex(idx, r)
    /\ attempts' = [attempts EXCEPT ![idx] = @ + 1]
    /\ UNCHANGED <<pc, args, dicom_files, dirs, ret, exit_code>>
    /\ UNCHANGED norm_vars

\* lines 155-156, and the return of main
BatchFinishGuard == pc = "loop" /\ idx > Len(dicom_files)

BatchFinish ==
    /\ BatchFinishGuard
    /\ out' = Append(out, Msg("stdout", "summary", None, Len(converted_files),
                              Len(dicom_files)))
    /\ ret' = Some(converted_files)
    /\ exit_code' = Some(0)
    /\ pc' = "exit"
    /\ UNCHANGED <<args, dicom_files, idx, converted_files, attempts, calls, pngs, dirs>>
    /\ UNCHANGED norm_vars

-----------------------------------------------------------------------------
(* Inputs *)

Dataset(a, p, c, w) ==
    [pixel_array |-> a, PhotometricInterpretation |-> p, WindowCenter |-> c,
     WindowWidth |-> w]

File(status, ds) == [status |-> status, ds |-> ds]

\* a MultiValue that starts with v: its later values differ from v
MultiFrom(v) == MultiElem(<<v, v + 1, v - 1>>)

CenterElems ==
    {Absent} \cup {ScalarElem(c) : c \in CenterVals} \cup {MultiFrom(c) : c \in CenterVals}

WidthElems ==
    {Absent} \cup {ScalarElem(w) : w \in WidthVals} \cup {MultiFrom(w) : w \in WidthVals}

GrayRamp == [shape |-> <<1, 2>>, data |-> <<0, 1>>]

\* the datasets of the single-file runs: every one-row array with every
\* photometric tag, without window metadata or with a scalar window; and one
\* array with every form of the two window elements
ConvDatasets ==
    {Dataset(a, p, Absent, Absent) :
        a \in {b \in Arrays : Len(b.shape) = 2 /\ b.shape[1] = 1}, p \in Photometrics}
    \cup
    {Dataset(a, p, ScalarElem(c), ScalarElem(w)) :
        a \in {b \in Arrays : Len(b.shape) = 2 /\ b.shape[1] = 1}, p \in Photometrics,
        c \in CenterVals, w \in WidthVals}
    \cup
    {Dataset(GrayRamp, p, c, w) : p \in Photometrics, c \in CenterElems, w \in WidthElems}

MultiFrame == [shape |-> <<1, 1, 1>>, data |-> <<0>>]

PlainDs == Dataset(GrayRamp, "MONOCHROME2", Absent, Absent)

WindowDs == Dataset(GrayRamp, "MONOCHROME2", ScalarElem(0), ScalarElem(2))

\* the files of a directory: unreadable, unwritable, not encodable, and good
\* ones with and without window metadata
SampleFiles ==
    { File("corrupt", PlainDs),
      File("no_pixels", PlainDs),
      File("unwritable", WindowDs),
      File("ok", Dataset(MultiFrame, "absent", ScalarElem(0), ScalarElem(2))),
      File("ok", PlainDs),
      File("ok", WindowDs),
      File("ok", Dataset(GrayRamp, "MONOCHROME1", MultiFrom(1), MultiFrom(3))) }

FileLists == UNION {[1 .. n -> SampleFiles] : n \in 0 .. MaxFiles}

RunInit ==
    /\ pc = "main"
    /\ idx = 0
    /\ converted_files = <<>>
    /\ attempts = [k \in DOMAIN dicom_files |-> 0]
    /\ calls = <<>>
    /\ pngs = {}
    /\ dirs = {}
    /\ out = <<>>
    /\ ret = None
    /\ exit_code = None
    /\ pixel_array = None /\ window_center = None /\ window_width = None
    /\ normalized_array = None

-----------------------------------------------------------------------------
(* The command line program *)

Init ==
    /\ args \in ArgSets
    /\ dicom_files \in FileLists
    /\ args.input_kind = "file" => Len(dicom_files) = 1
    /\ args.input_kind = "invalid" => Len(dicom_files) = 0
    /\ RunInit

Next ==
    \/ MainFile
    \/ MainDir
    \/ MainInvalid
    \/ BatchNoFiles
    \/ BatchStart
    \/ BatchIterate
    \/ BatchFinish

Spec == Init /\ [][Next]_vars

(* Single-file conversions over all the datasets *)

ConvInit ==
    /\ args \in {a \in ArgSets : a.input_kind = "file" /\ a.output = None
                                 /\ a.output_dir = None}
    /\ dicom_files \in {<<File("ok", d)>> : d \in ConvDatasets}
    /\ RunInit

ConvNext == MainFile

ConvSpec == ConvInit /\ [][ConvNext]_vars

-----------------------------------------------------------------------------
(* Properties of the normalizer, checked under NormSpec *)

Returned == pc = "returned"

Output == normalized_array[1]

Samples == pixel_array.data

WindowGiven == window_center # None /\ window_width # None

\* the display range [lo, hi] as the specification defines it
DisplayLo ==
    IF WindowGiven THEN window_center[1] - (window_width[1] \div 2) ELSE SeqMin(Samples)

DisplayHi ==
    IF WindowGiven THEN window_center[1] + (window_width[1] \div 2) ELSE SeqMax(Samples)

\* clip(pixels, c - w//2, c + w//2)
ClippedInput ==
    [shape |-> pixel_array.shape,
     data |-> [i \in DOMAIN Samples |->
                 IF DisplayLo > DisplayHi THEN DisplayHi
                 ELSE IF Samples[i] < DisplayLo THEN DisplayLo
                 ELSE IF Samples[i] > DisplayHi THEN DisplayHi
                 ELSE Samples[i]]]

FullRangeOfClipped == normalize_pixel_array(ClippedInput, None, None)

\* C1 as stated: windowed normalization equals the full-range normalization
\* of the array clipped to the window, for every array and every window.
C1_WindowEqualsFullRangeOfClipped ==
    (Returned /\ WindowGiven) => Output = FullRangeOfClipped

\* C1, amended: windowed normalization equals the full-range normalization of
\* the clipped array when the window is degenerate (hi <= lo) or the array
\* reaches both ends of the window (min(pixels) <= lo and max(pixels) >= hi).
C1_WindowEqualsFullRangeWhenSpanned ==
    (/\ Returned
     /\ WindowGiven
     /\ \/ DisplayHi <= DisplayLo
        \/ SeqMin(Samples) <= DisplayLo /\ SeqMax(Samples) >= DisplayHi)
    => Output = FullRangeOfClipped

C1_Witness ==
    /\ Returned
    /\ WindowGiven
    /\ DisplayHi > DisplayLo
    /\ SeqMin(Samples) < DisplayLo
    /\ SeqMax(Samples) >= DisplayHi
    /\ Output = FullRangeOfClipped
    /\ \E i \in DOMAIN Samples : Output.data[i] = 255

\* C2: when hi > lo, every output value of normalize is an integer in [0, 255].
C2_OutputInByteRange ==
    (Returned /\ DisplayHi > DisplayLo)
    => \A i \in DOMAIN Output.data : Output.data[i] \in 0 .. 255

C2_Witness ==
    /\ Returned
    /\ WindowGiven
    /\ DisplayHi > DisplayLo
    /\ \E i \in DOMAIN Samples : Samples[i] < DisplayLo /\ Output.data[i] = 0
    /\ \E i \in DOMAIN Samples : Samples[i] >= DisplayHi /\ Output.data[i] = 255

\* C3: when hi > lo, normalize preserves order: a sample that is <= another
\* sample of the same array gets an output value <= the other's.
C3_OrderPreserving ==
    (Returned /\ DisplayHi > DisplayLo)
    => \A i, j \in DOMAIN Samples :
          Samples[i] <= Samples[j] => Output.data[i] <= Output.data[j]

C3_Witness ==
    /\ Returned
    /\ WindowGiven
    /\ DisplayHi > DisplayLo
    /\ \E i, j \in DOMAIN Samples :
          /\ Samples[i] < Samples[j]
          /\ Samples[j] > DisplayHi
          /\ Output.data[i] < Output.data[j]

\* C4: when hi <= lo (a constant array without a window, or a window of
\* width 0, 1 or below 0), normalize returns zeros in the shape of the input.
C4_DegenerateGivesZeros ==
    (Returned /\ DisplayHi <= DisplayLo)
    => /\ Output.shape = pixel_array.shape
       /\ DOMAIN Output.data = DOMAIN Samples
       /\ \A i \in DOMAIN Output.data : Output.data[i] = 0

C4_Witness ==
    /\ Returned
    /\ WindowGiven
    /\ window_width[1] < 0
    /\ DisplayHi < 0
    /\ Len(pixel_array.shape) = 3
    /\ \E i, j \in DOMAIN Samples : Samples[i] # Samples[j]
    /\ \A i \in DOMAIN Output.data : Output.data[i] = 0

-----------------------------------------------------------------------------
(* Properties of a single-file conversion, checked under ConvSpec *)

Exited == pc = "exit"

TheDataset == dicom_files[1].ds

Original == TheDataset.pixel_array

\* max(pixels) - pixels, in the arithmetic of the stored dtype
InvertedOriginal ==
    [shape |-> Original.shape,
     data |-> [i \in DOMAIN Original.data |->
                 WrapDtype(SeqMax(Original.data) - Original.data[i])]]

\* the other order: clip the original array to the window, invert afterwards
ClipThenInvert(c, w) ==
    LET lo == c - (w \div 2)
        hi == c + (w \div 2)
        cl == [i \in DOMAIN Original.data |->
                 IF Original.data[i] < lo THEN lo
                 ELSE IF Original.data[i] > hi THEN hi ELSE Original.data[i]]
        inv == [i \in DOMAIN cl |-> SeqMax(cl) - cl[i]]
    IN  normalize_pixel_array([shape |-> Original.shape, data |-> inv], Some(c), Some(w))

C9_FirstWindowValue ==
    Exited
    => /\ Len(calls) = 1
       /\ IF /\ ~args.no_windowing
             /\ TheDataset.WindowCenter.kind # "absent"
             /\ TheDataset.WindowWidth.kind # "absent"
          THEN /\ calls[1].window_center = Some(TheDataset.WindowCenter.vals[1])
               /\ calls[1].window_width = Some(TheDataset.WindowWidth.vals[1])
          ELSE /\ calls[1].window_center = None
               /\ calls[1].window_width = None

C9_Witness ==
    /\ Exited
    /\ ~args.no_windowing
    /\ TheDataset.WindowCenter.kind = "multi"
    /\ TheDataset.WindowWidth.kind = "multi"
    /\ Len(TheDataset.WindowCenter.vals) > 1
    /\ Len(calls) = 1
    /\ calls[1].window_center = Some(TheDataset.WindowCenter.vals[1])
    /\ calls[1].window_width = Some(TheDataset.WindowWidth.vals[1])
    /\ calls[1].window_width[1] # TheDataset.WindowWidth.vals[2]

-----------------------------------------------------------------------------
(* Properties of the batch conversion, checked under Spec *)

BatchRun == args.input_kind = "dir"

Matched == DOMAIN dicom_files

Reported(kind) == {j \in DOMAIN out : out[j].kind = kind}

\* the files whose conversion was reported as failed
FailedFiles ==
    {k \in Matched : \E j \in Reported("error") : out[j].file = Some(InputPath(k))}

\* the files whose conversion was reported as done
ConvertedFiles ==
    {k \in Matched : \E j \in Reported("converted") : out[j].file = Some(InputPath(k))}

\* where a successful conversion of file k writes its PNG
ExpectedOutput(k) ==
    [dir |-> IF args.output_dir = None THEN "in" ELSE args.output_dir[1],
     base |-> k, ext |-> "png"]

C6_State ==
    BatchRun
    => /\ \A k \in Matched : attempts[k] <= 1
       /\ Exited
          => /\ \A k \in Matched : attempts[k] = 1
             /\ FailedFiles \cap ConvertedFiles = {}
             /\ FailedFiles \cup ConvertedFiles = Matched
             /\ \A k \in ConvertedFiles : \E p \in pngs : p.path = ExpectedOutput(k)
             /\ Len(ret[1]) = Cardinality(Matched \ FailedFiles)
             /\ \A j \in Reported("summary") :
                  /\ out[j].n = Cardinality(Matched \ FailedFiles)
                  /\ out[j].total = Len(dicom_files)

\* what is left to do: the dispatch, the glob, one step per file not yet
\* attempted, and the summary
StepsLeft ==
    CASE pc = "main" -> Len(dicom_files) + 3
      [] pc = "batch" -> Len(dicom_files) + 2
      [] pc = "loop" -> Len(dicom_files) + 2 - idx
      [] OTHER -> 0

\* some step of the batch path can be taken: the actions only assign once
\* their guard holds
CanStep ==
    \/ MainDirGuard
    \/ BatchNoFilesGuard
    \/ BatchStartGuard
    \/ BatchIterateGuard
    \/ BatchFinishGuard

\* C6: a batch attempts every matched file exactly once whatever fails, never
\* retries, and terminates (a step can be taken until it has exited, and
\* every step leaves fewer steps to do) with a success count equal to the
\* number of files whose conversion did not fail.
C6_EveryFileOnceAndCounted ==
    /\ [](C6_State /\ (BatchRun => (Exited \/ CanStep)))
    /\ [][BatchRun => StepsLeft' < StepsLeft]_vars

C6_Witness ==
    /\ BatchRun
    /\ Exited
    /\ Len(dicom_files) = 3
    /\ dicom_files[1].status = "corrupt"
    /\ FailedFiles = {1}
    /\ ConvertedFiles = {2, 3}
    /\ \A k \in Matched : attempts[k] = 1
    /\ Len(ret[1]) = 2

\* C7 as stated: the returned sequence holds one result per matched file, so
\* its length is the number of matched files even when conversions fail.
C7_OneResultPerMatchedFile ==
    (BatchRun /\ Exited) => Len(ret[1]) = Len(dicom_files)

\* C7, amended: the returned sequence holds the output paths of the files
\* whose conversion succeeded, in match order, and nothing for a failed file:
\* its length is the number of matched files minus the number of failures.
C7_OnePathPerConvertedFile ==
    (BatchRun /\ Exited)
    => /\ Len(ret[1]) = Len(dicom_files) - Cardinality(FailedFiles)
       /\ {ret[1][j] : j \in DOMAIN ret[1]} = {ExpectedOutput(k) : k \in Matched \ FailedFiles}
       /\ \A i, j \in DOMAIN ret[1] : i < j => ret[1][i].base < ret[1][j].base

C7_Witness ==
    /\ BatchRun
    /\ Exited
    /\ Len(dicom_files) = 3
    /\ Cardinality(FailedFiles) = 2
    /\ ret[1] = <<ExpectedOutput(2)>>

\* C8: with the flag that disables windowing, no conversion of the run hands
\* window parameters to the normalizer, in single-file and in batch mode.
C8_NoWindowingFlagHonoured ==
    args.no_windowing
    => \A j \in DOMAIN calls :
          calls[j].window_center = None /\ calls[j].window_width = None

\* C10: what a batch reports tells "no file matched" from "files matched and
\* every conversion failed": only the first prints the no-files message, only
\* the second prints the count of matches and a summary over a total >= 1.
C10_NoFilesToldFromAllFailed ==
    (BatchRun /\ Exited)
    => IF dicom_files = <<>>
       THEN /\ Reported("no_files") # {}
            /\ Reported("found") = {}
            /\ Reported("summary") = {}
       ELSE /\ Reported("no_files") = {}
            /\ \E j \in Reported("found") : out[j].n = Len(dicom_files)
            /\ \E j \in Reported("summary") : out[j].total = Len(dicom_files)

C10_Witness ==
    /\ BatchRun
    /\ Exited
    /\ Len(dicom_files) = 2
    /\ FailedFiles = Matched
    /\ ret = Some(<<>>)
    /\ Reported("no_files") = {}
    /\ \E j \in Reported("summary") : out[j].n = 0 /\ out[j].total = 2

====
